---- MODULE Spec2Model ----
(***************************************************************************)
(* Model of the infimum pallet: the poll provider (pallet/src/poll/        *)
(* provider.rs) and the poll-creation dispatchables (pallet/src/lib.rs).   *)
(***************************************************************************)
EXTENDS Integers, Sequences, FiniteSets, TLC

VARIABLES
    block_number,        \* frame_system::Pallet::<T>::block_number()
    poll,                \* the Poll<T> value the provider operates on
    ret,                 \* what the last provider / dispatch call returned
    runtime,             \* the pallet's Config constants
    Coordinators,        \* storage map AccountId -> Coordinator
    Polls,               \* counted storage map PollId -> Poll
    CoordinatorPollIDs   \* storage map AccountId -> Vec<PollId>

vars == <<block_number, poll, ret, runtime, Coordinators, Polls, CoordinatorPollIDs>>

pallet_vars == <<runtime, Coordinators, Polls, CoordinatorPollIDs>>

(***************************************************************************)
(* Bounds of the model.                                                    *)
(***************************************************************************)
\* Largest block height the model advances to.
MaxBlock == 12
\* Largest created_at / signup_period / voting_period drawn.
MaxPeriod == 3
\* Modulus of the model's prime field (Fr).
FieldOrder == 3
\* Largest process_subtree_depth / tally_subtree_depth drawn.
MaxSubtreeDepth == 1
\* Number of vote options of the poll (config.vote_options.len()).
NumVoteOptions == 2
\* Largest tally result an outcome claims.
MaxTally == 1
\* Largest block height the pallet's dispatchables are called at.
MaxPalletBlock == 4
\* Width in bits of the model's unsigned counters (u32 in the program).
CounterBits == 3
\* Largest number of polls created over all coordinators.
MaxPolls == 3
\* The MaxCoordinatorPolls the runtime is configured with, when not 0 (no limit).
MaxPollsLimit == 2

(***************************************************************************)
(* Program constants.                                                      *)
(***************************************************************************)
VOTE_TREE_ARITY == 5
\* zeroes::EMPTY_BALLOT_ROOTS[1], as a 32-byte big-endian value.
EMPTY_BALLOT_ROOT_1 == 1

\* arity and depth the two accumulators of a poll are built with.
TreeArity == 2
TreeDepth == 2
\* config.vote_option_tree_depth of the poll.
VoteOptionTreeDepth == 1

(***************************************************************************)
(* Option<T> is a sequence of length <= 1.                                 *)
(***************************************************************************)
None == <<>>
Some(v) == <<v>>
is_some(o) == Len(o) = 1
is_none(o) == Len(o) = 0
unwrap(o) == o[1]

RECURSIVE Pow(_, _)
Pow(b, e) == IF e = 0 THEN 1 ELSE b * Pow(b, e - 1)

(***************************************************************************)
(* Field Hash Adapter.  HashBytes are big-endian numbers; the field has    *)
(* FieldOrder elements, so the byte value FieldOrder reduces to 0.         *)
(***************************************************************************)
from_be_bytes_mod_order(bytes) == bytes % FieldOrder

\* hash.into_bigint().to_bytes_be(): the canonical representative.
to_bytes_be(fr) == fr

\* Poseidon over Fr: a deterministic function of the sequence of inputs.
RECURSIVE PoseidonFold(_, _, _)
PoseidonFold(inputs, i, acc) ==
    IF i > Len(inputs) THEN acc
    ELSE PoseidonFold(inputs, i + 1, (2 * acc + inputs[i] + i) % FieldOrder)

Poseidon(inputs) == PoseidonFold(inputs, 1, Len(inputs) % FieldOrder)

\* Fr::from(n) for an unsigned integer n: the embedding of u32 / u64 into Fr.
FrFromInt(n) == n

(***************************************************************************)
(* AmortizedIncrementalMerkleTree: insert and merge.                       *)
(***************************************************************************)
NewTree ==
    [arity |-> TreeArity, depth |-> TreeDepth, count |-> 0, digest |-> 0, root |-> None]

\* insert(leaf): Ok(tree) or Err(MerkleTreeError).
tree_insert(tree, leaf) ==
    IF is_some(tree.root) THEN [ok |-> FALSE, err |-> "AlreadyFinalized", tree |-> tree]
    ELSE IF tree.count >= Pow(tree.arity, tree.depth)
    THEN [ok |-> FALSE, err |-> "CapacityExceeded", tree |-> tree]
    ELSE [ok |-> TRUE, err |-> "",
          tree |-> [tree EXCEPT !.count = @ + 1,
                                !.digest = Poseidon(<<@, from_be_bytes_mod_order(leaf)>>)]]

\* merge(pad_with_zero_subtree): the root over the leaves inserted so far; a
\* finalized tree is returned as it is.
tree_merge(tree, zero_pad) ==
    IF is_some(tree.root) THEN [ok |-> TRUE, err |-> "", tree |-> tree]
    ELSE [ok |-> TRUE, err |-> "",
          tree |-> [tree EXCEPT !.root =
              Some(to_bytes_be(Poseidon(<<tree.digest, IF zero_pad THEN 1 ELSE 0>>)))]]

(***************************************************************************)
(* Poll<T> predicates (PollProvider).                                      *)
(***************************************************************************)
is_voting_period(p, now) ==
    LET voting_period_start == p.created_at + p.config.signup_period
        voting_period_end == voting_period_start + p.config.voting_period
    IN  now >= voting_period_start /\ now < voting_period_end

is_registration_period(p, now) ==
    now >= p.created_at /\ now < p.created_at + p.config.signup_period

get_voting_period_end(p) ==
    p.created_at + p.config.signup_period + p.config.voting_period

is_over(p, now) == now > get_voting_period_end(p)

is_merged(p) ==
    is_some(p.state.registrations.root) /\ is_some(p.state.interactions.root)

is_proven(p) ==
    /\ p.state.commitment.process[1] = p.state.commitment.expected_process
    /\ p.state.commitment.tally[1] = p.state.commitment.expected_tally

is_nullified(p) == p.state.tombstone

is_fulfilled(p) == is_some(p.state.outcome) \/ is_nullified(p)

\* nullify leaving the tombstone as it is.
nullify_tombstone_kept(p) == p

nullify(p) == [p EXCEPT !.state.tombstone = TRUE]

(***************************************************************************)
(* Poll<T> operations (PollProvider).                                      *)
(***************************************************************************)
\* register_participant with the leaf counted whatever insert returns.
register_participant_insert_unchecked(p, public_key, timestamp) ==
    [ok |-> TRUE, err |-> "", count |-> p.state.registrations.count + 1,
     poll |-> [p EXCEPT !.state.registrations.count = @ + 1]]

\* register_participant(public_key, timestamp) -> Result<(u32, Self), MerkleTreeError>
register_participant(p, public_key, timestamp) ==
    LET inputs == <<from_be_bytes_mod_order(public_key.x),
                    from_be_bytes_mod_order(public_key.y),
                    FrFromInt(1), FrFromInt(timestamp)>>
        leaf == to_bytes_be(Poseidon(inputs))
        ins == tree_insert(p.state.registrations, leaf)
    IN  IF ~ins.ok THEN [ok |-> FALSE, err |-> ins.err, count |-> 0, poll |-> p]
        ELSE [ok |-> TRUE, err |-> "", count |-> ins.tree.count,
              poll |-> [p EXCEPT !.state.registrations = ins.tree]]

\* consume_interaction returning the count read before the insertion.
consume_interaction_stale_count(p, public_key, data) ==
    LET ins == tree_insert(p.state.interactions, 0)
    IN  IF ~ins.ok THEN [ok |-> FALSE, err |-> ins.err, count |-> 0, poll |-> p]
        ELSE [ok |-> TRUE, err |-> "", count |-> p.state.interactions.count,
              poll |-> [p EXCEPT !.state.interactions = ins.tree]]

\* consume_interaction(public_key, data) -> Result<(u32, Self), MerkleTreeError>
consume_interaction(p, public_key, data) ==
    LET fr(i) == from_be_bytes_mod_order(data[i])
        left == Poseidon(<<fr(1), fr(2), fr(3), fr(4), fr(5)>>)
        right == Poseidon(<<fr(6), fr(7), fr(8), fr(9), fr(10)>>)
        inputs == <<from_be_bytes_mod_order(to_bytes_be(left)),
                    from_be_bytes_mod_order(to_bytes_be(right)),
                    from_be_bytes_mod_order(public_key.x),
                    from_be_bytes_mod_order(public_key.y)>>
        leaf == to_bytes_be(Poseidon(inputs))
        ins == tree_insert(p.state.interactions, leaf)
    IN  IF ~ins.ok THEN [ok |-> FALSE, err |-> ins.err, count |-> 0, poll |-> p]
        ELSE [ok |-> TRUE, err |-> "", count |-> ins.tree.count,
              poll |-> [p EXCEPT !.state.interactions = ins.tree]]

\* merge_registrations() -> Result<Self, MerkleTreeError>
merge_registrations(p) ==
    LET m == tree_merge(p.state.registrations, FALSE)
    IN  IF ~m.ok THEN [ok |-> FALSE, err |-> m.err, poll |-> p]
        ELSE IF is_none(m.tree.root) THEN [ok |-> FALSE, err |-> "MergeFailed", poll |-> p]
        ELSE LET inputs == <<from_be_bytes_mod_order(unwrap(m.tree.root)),
                             from_be_bytes_mod_order(EMPTY_BALLOT_ROOT_1),
                             from_be_bytes_mod_order(0)>>
                 commitment == to_bytes_be(Poseidon(inputs))
             IN  [ok |-> TRUE, err |-> "",
                  poll |-> [p EXCEPT !.state.registrations = m.tree,
                                     !.state.commitment.process = <<0, commitment>>]]

\* The extra batch left out: a partial last batch is not counted.
process_extra_batch_dropped(count, process_batch_size) == 0

\* `if (count % process_batch_size) > 0 { 1 } else { 0 }`
process_extra_batch(count, process_batch_size) ==
    IF (count % process_batch_size) > 0 THEN 1 ELSE 0

\* merge_interactions() -> Result<Self, MerkleTreeError>
merge_interactions(p) ==
    LET m == tree_merge(p.state.interactions, TRUE)
    IN  IF ~m.ok THEN [ok |-> FALSE, err |-> m.err, poll |-> p]
        ELSE LET process_batch_size == Pow(m.tree.arity, p.config.process_subtree_depth)
                 tally_batch_size ==
                     Pow(p.state.registrations.arity, p.config.tally_subtree_depth)
             IN  [ok |-> TRUE, err |-> "",
                  poll |-> [p EXCEPT
                      !.state.interactions = m.tree,
                      !.state.commitment.expected_process =
                          (m.tree.count \div process_batch_size)
                          + process_extra_batch(m.tree.count, process_batch_size),
                      !.state.commitment.expected_tally =
                          1 + (p.state.registrations.count \div tally_batch_size)]]

\* The batch end left at start + batch size for a partial last batch.
end_batch_index_unclamped(start_batch_index, message_batch_size, count) ==
    start_batch_index + message_batch_size

\* end_batch_index: the batch start plus the batch size, clamped to the
\* interaction count.
end_batch_index(start_batch_index, message_batch_size, count) ==
    IF start_batch_index + message_batch_size > count THEN count
    ELSE start_batch_index + message_batch_size

\* The process pair with the proof index left where it was.
commitment_process_index_kept(proof_index, new_commitment) ==
    <<proof_index, new_commitment>>

\* `commitment.process = (proof_index + 1, new_commitment);`
commitment_process(proof_index, new_commitment) ==
    <<proof_index + 1, new_commitment>>

\* prepare_public_inputs(coordinator, new_commitment)
\*   -> Option<(VerifyKey, Vec<Fr>, Commitment)>
NoInputs == [some |-> FALSE, verify_key |-> "", inputs |-> <<>>]

prepare_public_inputs(p, coordinator, new_commitment) ==
    LET count == p.state.interactions.count
        message_batch_size == Pow(p.state.interactions.arity, p.config.process_subtree_depth)
        r == count % message_batch_size
        current_batch_index ==
            IF count > 0
            THEN (IF r = 0 THEN count - message_batch_size ELSE count - r)
            ELSE count
        proof_index == p.state.commitment.process[1]
        index_offset == proof_index * message_batch_size
    IN  IF index_offset <= current_batch_index
        THEN \* inputs for the message processing circuit
             LET coord_pub_key_hash ==
                     Poseidon(<<from_be_bytes_mod_order(coordinator.public_key.x),
                                from_be_bytes_mod_order(coordinator.public_key.y)>>)
                 start_batch_index == current_batch_index - index_offset
             IN  IF is_none(p.state.interactions.root)
                 THEN NoInputs @@ [commitment |-> p.state.commitment]
                 ELSE [some |-> TRUE,
                       verify_key |-> coordinator.verify_key.process,
                       inputs |-> <<FrFromInt(p.state.registrations.count + 1),
                                    FrFromInt(get_voting_period_end(p)),
                                    from_be_bytes_mod_order(unwrap(p.state.interactions.root)),
                                    FrFromInt(p.state.registrations.depth),
                                    FrFromInt(end_batch_index(start_batch_index,
                                                  message_batch_size, count)),
                                    FrFromInt(start_batch_index),
                                    coord_pub_key_hash,
                                    from_be_bytes_mod_order(p.state.commitment.process[2]),
                                    from_be_bytes_mod_order(new_commitment)>>,
                       commitment |-> [p.state.commitment EXCEPT
                                          !.process = commitment_process(proof_index,
                                                                         new_commitment)]]
        ELSE \* inputs for the tally circuit
             LET tally_index == p.state.commitment.tally[1]
                 batch_size == Pow(p.state.registrations.arity, p.config.tally_subtree_depth)
                 tally_batch_index == tally_index * batch_size
             IN  IF tally_batch_index >= p.state.registrations.count + 1
                 THEN NoInputs @@ [commitment |-> p.state.commitment]
                 ELSE [some |-> TRUE,
                       verify_key |-> coordinator.verify_key.tally,
                       inputs |-> <<from_be_bytes_mod_order(p.state.commitment.process[2]),
                                    from_be_bytes_mod_order(p.state.commitment.tally[2]),
                                    from_be_bytes_mod_order(new_commitment),
                                    FrFromInt(tally_batch_index),
                                    FrFromInt(p.state.registrations.count + 1)>>,
                       commitment |-> [p.state.commitment EXCEPT
                                          !.tally = <<tally_index + 1, new_commitment>>]]

(***************************************************************************)
(* Outcome verification.                                                   *)
(***************************************************************************)
\* One level of compute_merkle_root_from_path: the VOTE_TREE_ARITY children,
\* `current` at `position` and the siblings of path[i] around it.  Indexing
\* path[i][k] outside the vector panics.
sibling_index(j, position) == IF j > position THEN j - 1 ELSE j

level_panics(siblings, position) ==
    \E j \in 0 .. VOTE_TREE_ARITY - 1 :
        j /= position /\ sibling_index(j, position) >= Len(siblings)

level_of(siblings, position, current) ==
    [l \in 1 .. VOTE_TREE_ARITY |->
        IF l - 1 = position THEN current
        ELSE siblings[sibling_index(l - 1, position) + 1]]

\* The `for i in 0..depth` loop, from iteration i with idx and current.
RECURSIVE merkle_path_loop(_, _, _, _, _)
merkle_path_loop(depth, i, idx, current, path) ==
    IF i >= depth THEN [kind |-> "some", val |-> current]
    ELSE IF i >= Len(path) THEN [kind |-> "panic", val |-> 0]
    ELSE LET position == idx % VOTE_TREE_ARITY
         IN  IF level_panics(path[i + 1], position) THEN [kind |-> "panic", val |-> 0]
             ELSE LET level == level_of(path[i + 1], position, current)
                      inputs == [l \in 1 .. VOTE_TREE_ARITY |->
                                    from_be_bytes_mod_order(level[l])]
                  IN  merkle_path_loop(depth, i + 1, idx \div VOTE_TREE_ARITY,
                                       to_bytes_be(Poseidon(inputs)), path)

compute_merkle_root_from_path(depth, index, leaf, path) ==
    merkle_path_loop(depth, 0, index, leaf, path)

\* The chained hash of one vote option's recomputed root.
option_commitment(outcome, root) ==
    LET hash == Poseidon(<<from_be_bytes_mod_order(root),
                           from_be_bytes_mod_order(outcome.tally_result_salt)>>)
    IN  to_bytes_be(Poseidon(<<from_be_bytes_mod_order(to_bytes_be(hash)),
                               from_be_bytes_mod_order(outcome.spent_votes_hash)>>))

\* The chained hash of the total number of votes cast.
total_spent_commitment(outcome) ==
    LET hash == Poseidon(<<from_be_bytes_mod_order(outcome.total_spent),
                           from_be_bytes_mod_order(outcome.total_spent_salt)>>)
    IN  to_bytes_be(Poseidon(<<from_be_bytes_mod_order(outcome.new_results_commitment),
                               from_be_bytes_mod_order(to_bytes_be(hash))>>))

VerifyNone == [kind |-> "none", index |-> 0]
VerifyPanic == [kind |-> "panic", index |-> 0]

\* verify_total_spent without the comparison with the tally commitment.
verify_total_spent_unchecked(p, outcome, outcome_index) ==
    [kind |-> "some", index |-> outcome_index]

\* The total-spent check that follows the loop over the vote options.
verify_total_spent(p, outcome, outcome_index) ==
    IF total_spent_commitment(outcome) /= p.state.commitment.tally[2] THEN VerifyNone
    ELSE [kind |-> "some", index |-> outcome_index]

\* The winner tracking with a tie moving the winner to the later option.
tally_exceeds_or_ties(tally_result, max_tally_result) ==
    tally_result >= max_tally_result

\* `*tally_result > max_tally_result`: the option becomes the winner candidate.
tally_exceeds(tally_result, max_tally_result) ==
    tally_result > max_tally_result

\* The `for option_index in 0..vote_options.len()` loop, from option_index with
\* the winner tracked so far.
RECURSIVE verify_options(_, _, _, _, _)
verify_options(p, outcome, option_index, outcome_index, max_tally_result) ==
    IF option_index >= Len(p.config.vote_options)
    THEN verify_total_spent(p, outcome, outcome_index)
    ELSE IF option_index >= Len(outcome.tally_results) THEN VerifyNone
    ELSE IF option_index >= Len(outcome.tally_result_proofs) THEN VerifyNone
    ELSE LET tally_result == outcome.tally_results[option_index + 1]
             tally_path == outcome.tally_result_proofs[option_index + 1]
             root == compute_merkle_root_from_path(
                         p.config.vote_option_tree_depth, option_index,
                         tally_result, tally_path)
         IN  IF root.kind = "panic" THEN VerifyPanic
             ELSE IF root.kind = "none" THEN VerifyNone
             ELSE IF option_commitment(outcome, root.val) /= p.state.commitment.tally[2]
             THEN VerifyNone
             ELSE IF tally_exceeds(tally_result, max_tally_result)
             THEN verify_options(p, outcome, option_index + 1, option_index, tally_result)
             ELSE verify_options(p, outcome, option_index + 1, outcome_index,
                                 max_tally_result)

\* verify_outcome without the is_proven guard.
verify_outcome_unguarded(p, outcome) ==
    IF is_none(outcome) THEN VerifyNone
    ELSE verify_options(p, unwrap(outcome), 0, 0, 0)

\* verify_outcome(outcome: Option<PollOutcome>) -> Option<OutcomeIndex>
verify_outcome(p, outcome) ==
    IF ~is_proven(p) THEN VerifyNone
    ELSE IF is_none(outcome) THEN VerifyNone
    ELSE verify_options(p, unwrap(outcome), 0, 0, 0)

(***************************************************************************)
(* Inputs the model draws.                                                 *)
(***************************************************************************)
PublicKeys == {[x |-> 1, y |-> 2]}

Timestamps == {0}

InteractionData == {[i \in 1 .. 10 |-> 1]}

TheCoordinator ==
    [public_key |-> [x |-> 1, y |-> 2],
     verify_key |-> [process |-> "process", tally |-> "tally"]]

\* HashBytes values: a canonical and a non-canonical (>= the field order)
\* commitment.
NewCommitments == {1, FieldOrder}

NoRet ==
    [op |-> "", who |-> "", kind |-> "", err |-> "", val |-> 0, circuit |-> "",
     start |-> 0, end |-> 0, wellformed |-> FALSE, matches |-> FALSE,
     mismatches |-> 0, results |-> <<>>]

\* A freshly created poll: empty accumulators, zero commitment ledger, the
\* capacity ceilings those of the accumulators (arity^depth leaves).
NewPoll(created_at, signup_period, voting_period, process_depth, tally_depth) ==
    [created_at |-> created_at,
     config |-> [signup_period |-> signup_period,
                 voting_period |-> voting_period,
                 vote_options |-> [i \in 1 .. NumVoteOptions |-> i],
                 vote_option_tree_depth |-> VoteOptionTreeDepth,
                 process_subtree_depth |-> process_depth,
                 tally_subtree_depth |-> tally_depth,
                 max_registrations |-> Pow(TreeArity, TreeDepth),
                 max_interactions |-> Pow(TreeArity, TreeDepth)],
     state |-> [registrations |-> NewTree,
                interactions |-> NewTree,
                commitment |-> [process |-> <<0, 0>>,
                                tally |-> <<0, 0>>,
                                expected_process |-> 0,
                                expected_tally |-> 0],
                outcome |-> None,
                tombstone |-> FALSE]]

NoPallet ==
    /\ runtime = [MaxCoordinatorPolls |-> 0, MaxPublicKeyLength |-> 0,
                  MaxVerifyKeyLength |-> 0]
    /\ Coordinators = <<>>
    /\ Polls = <<>>
    /\ CoordinatorPollIDs = <<>>

(***************************************************************************)
(* The poll provider as a state machine: one poll, each returned value     *)
(* persisted.                                                              *)
(***************************************************************************)
Init ==
    /\ block_number = 0
    /\ \E pd \in 0 .. MaxSubtreeDepth, td \in 0 .. MaxSubtreeDepth :
           poll = NewPoll(0, 1, 1, pd, td)
    /\ ret = NoRet
    /\ NoPallet

RegisterParticipant ==
    \E public_key \in PublicKeys, timestamp \in Timestamps :
        LET r == register_participant(poll, public_key, timestamp)
        IN  /\ poll' = r.poll
            /\ ret' = [NoRet EXCEPT !.op = "register_participant",
                                    !.kind = IF r.ok THEN "ok" ELSE "err",
                                    !.err = r.err, !.val = r.count]
            /\ UNCHANGED <<block_number, pallet_vars>>

ConsumeInteraction ==
    \E public_key \in PublicKeys, data \in InteractionData :
        LET r == consume_interaction(poll, public_key, data)
        IN  /\ poll' = r.poll
            /\ ret' = [NoRet EXCEPT !.op = "consume_interaction",
                                    !.kind = IF r.ok THEN "ok" ELSE "err",
                                    !.err = r.err, !.val = r.count]
            /\ UNCHANGED <<block_number, pallet_vars>>

MergeRegistrations ==
    LET r == merge_registrations(poll)
    IN  /\ poll' = r.poll
        /\ ret' = [NoRet EXCEPT !.op = "merge_registrations",
                                !.kind = IF r.ok THEN "ok" ELSE "err", !.err = r.err]
        /\ UNCHANGED <<block_number, pallet_vars>>

MergeInteractions ==
    LET r == merge_interactions(poll)
    IN  /\ poll' = r.poll
        /\ ret' = [NoRet EXCEPT !.op = "merge_interactions",
                                !.kind = IF r.ok THEN "ok" ELSE "err", !.err = r.err]
        /\ UNCHANGED <<block_number, pallet_vars>>

\* prepare_public_inputs, the returned ledger persisted when there is one.
PreparePublicInputs ==
    \E new_commitment \in NewCommitments :
        LET r == prepare_public_inputs(poll, TheCoordinator, new_commitment)
        IN  /\ poll' = [poll EXCEPT !.state.commitment = r.commitment]
            /\ ret' = [NoRet EXCEPT
                          !.op = "prepare_public_inputs",
                          !.kind = IF r.some THEN "some" ELSE "none",
                          !.val = IF r.some THEN new_commitment ELSE 0,
                          !.circuit = r.verify_key,
                          !.start = IF r.verify_key = "process" THEN r.inputs[6]
                                    ELSE IF r.verify_key = "tally" THEN r.inputs[4] ELSE 0,
                          !.end = IF r.verify_key = "process" THEN r.inputs[5] ELSE 0]
            /\ UNCHANGED <<block_number, pallet_vars>>

Nullify ==
    /\ poll' = nullify(poll)
    /\ ret' = [NoRet EXCEPT !.op = "nullify", !.kind = "ok"]
    /\ UNCHANGED <<block_number, pallet_vars>>

Next ==
    \/ RegisterParticipant
    \/ ConsumeInteraction
    \/ MergeRegistrations
    \/ MergeInteractions
    \/ PreparePublicInputs
    \/ Nullify

Spec == Init /\ [][Next]_vars

(***************************************************************************)
(* The poll's timeline: a poll created at the current height, and the      *)
(* block height advancing.                                                 *)
(***************************************************************************)
InitTime ==
    /\ \E created_at \in 0 .. MaxPeriod, signup_period \in 1 .. MaxPeriod,
          voting_period \in 1 .. MaxPeriod :
           /\ block_number = created_at
           /\ poll = NewPoll(created_at, signup_period, voting_period, 0, 0)
    /\ ret = NoRet
    /\ NoPallet

Tick ==
    /\ block_number < MaxBlock
    /\ block_number' = block_number + 1
    /\ UNCHANGED <<poll, ret, pallet_vars>>

NextTime == Tick

SpecTime == InitTime /\ [][NextTime]_vars

(***************************************************************************)
(* The pallet: register_as_coordinator and create_poll (lib.rs).           *)
(***************************************************************************)
Accounts == {"alice", "bob"}

\* Keys are byte vectors; the bounded vectors hold at most one byte here.
Keys == {<<1>>, <<1, 1>>}

\* The <<signup_period, voting_period>> pairs create_poll is called with.
PalletPeriods == {<<0, 0>>, <<1, 1>>}

\* StorageMap::get / contains_key / insert on a map kept as a function.
contains_key(map, k) == k \in DOMAIN map
storage_get(map, k) == IF k \in DOMAIN map THEN Some(map[k]) ELSE None
storage_insert(map, k, v) ==
    [x \in DOMAIN map \cup {k} |-> IF x = k THEN v ELSE map[x]]
\* CountedStorageMap::count
storage_count(map) == Cardinality(DOMAIN map)
\* CoordinatorPollIDs is a ValueQuery map: an absent key reads as the empty Vec.
poll_ids(ids, who) == IF who \in DOMAIN ids THEN ids[who] ELSE <<>>

\* poll_is_ongoing with the end height excluded.
poll_is_ongoing_end_excluded(now, p) ==
    IF is_some(p)
    THEN now < unwrap(p).created_at + unwrap(p).voting_period + unwrap(p).signup_period
    ELSE FALSE

poll_is_ongoing(now, p) ==
    IF is_some(p)
    THEN now <= unwrap(p).created_at + unwrap(p).voting_period + unwrap(p).signup_period
    ELSE FALSE

\* register_as_coordinator(origin, public_key, verify_key) -> DispatchResult
register_as_coordinator(coordinators, rt, sender, public_key, verify_key) ==
    IF contains_key(coordinators, sender)
    THEN [err |-> "CoordinatorAlreadyRegistered", coordinators |-> coordinators]
    ELSE IF Len(public_key) > rt.MaxPublicKeyLength
    THEN [err |-> "CoordinatorPublicKeyTooLong", coordinators |-> coordinators]
    ELSE IF Len(verify_key) > rt.MaxVerifyKeyLength
    THEN [err |-> "CoordinatorVerifyKeyTooLong", coordinators |-> coordinators]
    ELSE [err |-> "",
          coordinators |-> storage_insert(coordinators, sender,
              [public_key |-> public_key, verify_key |-> verify_key])]

\* The poll index taken as the number of polls stored.
poll_index_unshifted(polls) == storage_count(polls)

\* `let poll_index = Polls::<T>::count() + 1;`
poll_index(polls) == storage_count(polls) + 1

\* create_poll(origin, signup_period, voting_period) -> DispatchResult
create_poll(coordinators, polls, ids, rt, now, sender, signup_period, voting_period) ==
    LET coord_poll_ids == poll_ids(ids, sender)
        max_polls == rt.MaxCoordinatorPolls
        created_at == now
        unchanged(e) == [err |-> e, polls |-> polls, ids |-> ids, index |-> 0]
    IN  IF ~contains_key(coordinators, sender)
        THEN unchanged("CoordinatorNotRegistered")
        ELSE IF ~(max_polls = 0 \/ Len(coord_poll_ids) < max_polls)
        THEN unchanged("CoordinatorMayNotCreatePolls")
        ELSE IF /\ Len(coord_poll_ids) > 0
                /\ poll_is_ongoing(created_at,
                       storage_get(polls, coord_poll_ids[Len(coord_poll_ids)]))
        THEN unchanged("PollOngoing")
        ELSE [err |-> "",
              polls |-> storage_insert(polls, poll_index(polls),
                  [index |-> poll_index(polls), coordinator |-> sender,
                   created_at |-> created_at, signup_period |-> signup_period,
                   voting_period |-> voting_period]),
              ids |-> storage_insert(ids, sender,
                         Append(coord_poll_ids, poll_index(polls))),
              index |-> poll_index(polls)]

InitPallet ==
    /\ block_number = 0
    /\ poll = NewPoll(0, 1, 1, 0, 0)
    /\ ret = NoRet
    /\ \E max_polls \in {0, MaxPollsLimit} :
           runtime = [MaxCoordinatorPolls |-> max_polls, MaxPublicKeyLength |-> 1,
                      MaxVerifyKeyLength |-> 1]
    /\ Coordinators = <<>>
    /\ Polls = <<>>
    /\ CoordinatorPollIDs = <<>>

RegisterAsCoordinator ==
    \E sender \in Accounts, public_key \in Keys, verify_key \in Keys :
        LET r == register_as_coordinator(Coordinators, runtime, sender,
                                         public_key, verify_key)
        IN  /\ Coordinators' = r.coordinators
            /\ ret' = [NoRet EXCEPT !.op = "register_as_coordinator",
                                    !.kind = IF r.err = "" THEN "ok" ELSE "err",
                                    !.err = r.err]
            /\ UNCHANGED <<block_number, poll, runtime, Polls, CoordinatorPollIDs>>

CreatePoll ==
    /\ storage_count(Polls) < MaxPolls
    /\ \E sender \in Accounts, periods \in PalletPeriods :
        LET r == create_poll(Coordinators, Polls, CoordinatorPollIDs, runtime,
                             block_number, sender, periods[1], periods[2])
        IN  /\ Polls' = r.polls
            /\ CoordinatorPollIDs' = r.ids
            /\ ret' = [NoRet EXCEPT !.op = "create_poll", !.who = sender,
                                    !.kind = IF r.err = "" THEN "ok" ELSE "err",
                                    !.err = r.err, !.val = r.index]
            /\ UNCHANGED <<block_number, poll, runtime, Coordinators>>

\* The chain moves to the next block.
NextBlock ==
    /\ block_number < MaxPalletBlock
    /\ block_number' = block_number + 1
    /\ ret' = NoRet
    /\ UNCHANGED <<poll, pallet_vars>>

NextPallet ==
    \/ RegisterAsCoordinator
    \/ CreatePoll
    \/ NextBlock

SpecPallet == InitPallet /\ [][NextPallet]_vars

(***************************************************************************)
(* Outcome verification on the poll the provider operations reach.         *)
(***************************************************************************)
\* Sibling vectors of one level: the VOTE_TREE_ARITY - 1 siblings, or a
\* vector one short.
SiblingLevels ==
    {[k \in 1 .. VOTE_TREE_ARITY - 1 |-> v] : v \in 0 .. FieldOrder - 1}
    \cup {[k \in 1 .. VOTE_TREE_ARITY - 2 |-> 0]}

\* Proof paths: up to vote_option_tree_depth levels.
ProofPaths ==
    {[i \in 1 .. n |-> level] : n \in 0 .. VoteOptionTreeDepth, level \in SiblingLevels}

\* Proof vectors: the same path for every vote option, or a vector one short.
ProofVectors ==
    {[i \in 1 .. NumVoteOptions |-> path] : path \in ProofPaths}
    \cup {[i \in 1 .. NumVoteOptions - 1 |-> <<>>]}

\* Tally results: one per vote option, or a vector one short.
TallyResults ==
    [1 .. NumVoteOptions -> 0 .. MaxTally]
    \cup {[i \in 1 .. NumVoteOptions - 1 |-> 0]}

\* Claimed outcomes: tally results and proofs for all vote options or for all
\* but the last.
Outcomes ==
    {[tally_results |-> results,
      tally_result_proofs |-> proofs,
      tally_result_salt |-> salt,
      spent_votes_hash |-> 0,
      total_spent |-> 0,
      total_spent_salt |-> 0,
      new_results_commitment |-> results_commitment] :
        results \in TallyResults,
        proofs \in ProofVectors,
        salt \in {1},
        results_commitment \in {0, FieldOrder - 1}}

\* Every vote option has a tally result and a proof path of
\* vote_option_tree_depth levels of VOTE_TREE_ARITY - 1 siblings.
outcome_wellformed(p, outcome) ==
    \A i \in 1 .. Len(p.config.vote_options) :
        /\ i <= Len(outcome.tally_results)
        /\ i <= Len(outcome.tally_result_proofs)
        /\ Len(outcome.tally_result_proofs[i]) >= p.config.vote_option_tree_depth
        /\ \A l \in 1 .. p.config.vote_option_tree_depth :
               Len(outcome.tally_result_proofs[i][l]) >= VOTE_TREE_ARITY - 1

\* The vote options of a well-formed outcome whose recomputed chained hash
\* differs from the stored tally commitment.
mismatched_options(p, outcome) ==
    {i \in 1 .. Len(p.config.vote_options) :
        option_commitment(outcome,
            compute_merkle_root_from_path(p.config.vote_option_tree_depth, i - 1,
                outcome.tally_results[i], outcome.tally_result_proofs[i]).val)
        /= p.state.commitment.tally[2]}

\* The number of checks (one per vote option, one for the total spent) that a
\* well-formed outcome fails against the stored tally commitment.
outcome_mismatches(p, outcome) ==
    Cardinality(mismatched_options(p, outcome))
    + (IF total_spent_commitment(outcome) /= p.state.commitment.tally[2]
       THEN 1 ELSE 0)

\* A fresh poll whose batches hold TreeArity^MaxSubtreeDepth leaves.
InitOutcome ==
    /\ block_number = 0
    /\ poll = NewPoll(0, 1, 1, MaxSubtreeDepth, MaxSubtreeDepth)
    /\ ret = NoRet
    /\ NoPallet

VerifyOutcome ==
    \E outcome \in Outcomes :
        LET r == verify_outcome(poll, Some(outcome))
            wellformed == outcome_wellformed(poll, outcome)
            mismatches == IF wellformed THEN outcome_mismatches(poll, outcome) ELSE 0
        IN  /\ ret' = [NoRet EXCEPT !.op = "verify_outcome",
                                    !.kind = r.kind, !.val = r.index,
                                    !.wellformed = wellformed,
                                    !.matches = wellformed /\ mismatches = 0,
                                    !.mismatches = mismatches,
                                    !.results = IF r.kind = "some"
                                                THEN outcome.tally_results
                                                ELSE <<>>]
            /\ UNCHANGED <<block_number, poll, pallet_vars>>

NextOutcome ==
    \/ ConsumeInteraction
    \/ MergeRegistrations
    \/ MergeInteractions
    \/ PreparePublicInputs
    \/ VerifyOutcome

SpecOutcome == InitOutcome /\ [][NextOutcome]_vars

(***************************************************************************)
(* The capacity predicates on a poll configured with any max_registrations.*)
(***************************************************************************)
CounterModulus == Pow(2, CounterBits)

\* a - b on unsigned counters in a build without overflow checks.
wrapping_sub(a, b) == (a - b) % CounterModulus

\* registration_limit_reached() -> bool: the results the builds can produce.
\* `max_registrations - 1` overflows for max_registrations = 0: a panic with
\* overflow checks on, the wrapped value without them.
registration_limit_reached(p) ==
    LET count == p.state.registrations.count
        max == p.config.max_registrations
        compare(limit) == IF count >= limit THEN "true" ELSE "false"
    IN  IF max - 1 < 0 THEN {"panic", compare(wrapping_sub(max, 1))}
        ELSE {compare(max - 1)}

\* interaction_limit_reached() -> bool
interaction_limit_reached(p) ==
    IF p.state.interactions.count >= p.config.max_interactions
    THEN "true" ELSE "false"

InitLimit ==
    /\ block_number = 0
    /\ \E max_registrations \in 0 .. CounterModulus - 1 :
           poll = [NewPoll(0, 1, 1, 0, 0) EXCEPT
                      !.config.max_registrations = max_registrations]
    /\ ret = NoRet
    /\ NoPallet

RegistrationLimitReached ==
    \E result \in registration_limit_reached(poll) :
        /\ ret' = [NoRet EXCEPT !.op = "registration_limit_reached", !.kind = result]
        /\ UNCHANGED <<block_number, poll, pallet_vars>>

InteractionLimitReached ==
    /\ ret' = [NoRet EXCEPT !.op = "interaction_limit_reached",
                            !.kind = interaction_limit_reached(poll)]
    /\ UNCHANGED <<block_number, poll, pallet_vars>>

NextLimit ==
    \/ RegisterParticipant
    \/ ConsumeInteraction
    \/ RegistrationLimitReached
    \/ InteractionLimitReached

SpecLimit == InitLimit /\ [][NextLimit]_vars

(***************************************************************************)
(* Claims.                                                                 *)
(***************************************************************************)
BoolToNat(b) == IF b THEN 1 ELSE 0

\* C1: at every block height now >= created_at of a poll with positive
\* periods, exactly one of is_registration_period, is_voting_period and
\* is_over is true.
C1_PeriodsPartition ==
    BoolToNat(is_registration_period(poll, block_number))
    + BoolToNat(is_voting_period(poll, block_number))
    + BoolToNat(is_over(poll, block_number)) = 1

process_index(p) == p.state.commitment.process[1]
tally_index(p) == p.state.commitment.tally[1]

\* C2: in every step the process and the tally proof index do not decrease,
\* and they change only by +1, in a prepare_public_inputs call that returned
\* a ledger.
C2_IndicesStepByOne ==
    [][/\ process_index(poll') >= process_index(poll)
       /\ tally_index(poll') >= tally_index(poll)
       /\ (process_index(poll') /= process_index(poll)
              \/ tally_index(poll') /= tally_index(poll))
          => /\ ret'.op = "prepare_public_inputs"
             /\ ret'.kind = "some"
             /\ (process_index(poll') - process_index(poll))
                + (tally_index(poll') - tally_index(poll)) = 1]_vars

\* C3: once merge_interactions has run, the process proof index is at most
\* expected_process and the tally proof index at most expected_tally.
C3_IndicesWithinExpected ==
    is_some(poll.state.interactions.root)
    => /\ process_index(poll) <= poll.state.commitment.expected_process
       /\ tally_index(poll) <= poll.state.commitment.expected_tally

\* C4: prepare_public_inputs returns process-circuit inputs only while the
\* process proof index is below expected_process (so the index it returns is
\* at most expected_process), and tally-circuit inputs only once the process
\* proof index has reached expected_process.
C4_CircuitFollowsBatches ==
    (ret.op = "prepare_public_inputs" /\ ret.kind = "some")
    => /\ ret.circuit = "process"
          => process_index(poll) <= poll.state.commitment.expected_process
       /\ ret.circuit = "tally"
          => process_index(poll) >= poll.state.commitment.expected_process

\* C5: on a merged poll prepare_public_inputs stops returning a ledger exactly
\* when is_proven holds: the proofs run out at is_proven, and once is_proven
\* holds no result is returned.
C5_ExhaustedIffProven ==
    is_merged(poll)
    => (is_proven(poll)
        <=> \A c \in NewCommitments :
                ~prepare_public_inputs(poll, TheCoordinator, c).some)

\* C6: prepare_public_inputs returns a result only on a merged poll.
C6_ResultOnlyWhenMerged ==
    (ret.op = "prepare_public_inputs" /\ ret.kind = "some") => is_merged(poll)

\* The interval [created_at, created_at + signup_period + voting_period] of a
\* stored poll.
interval_end(p) == p.created_at + p.signup_period + p.voting_period
within_interval(p, now) == p.created_at <= now /\ now <= interval_end(p)

intervals_disjoint ==
    \A i \in DOMAIN Polls, j \in DOMAIN Polls :
        (i /= j /\ Polls[i].coordinator = Polls[j].coordinator)
        => (interval_end(Polls[i]) < Polls[j].created_at
            \/ interval_end(Polls[j]) < Polls[i].created_at)

\* The coordinator's most recently created poll is within its interval.
last_poll_open(who) ==
    LET ids == poll_ids(CoordinatorPollIDs, who)
    IN  /\ Len(ids) > 0
        /\ ids[Len(ids)] \in DOMAIN Polls
        /\ within_interval(Polls[ids[Len(ids)]], block_number)

at_poll_limit(who) ==
    /\ runtime.MaxCoordinatorPolls /= 0
    /\ Len(poll_ids(CoordinatorPollIDs, who)) >= runtime.MaxCoordinatorPolls

\* C7 as stated: no two polls of one coordinator have overlapping intervals,
\* and a create_poll called while the coordinator's most recent poll is within
\* its interval fails with PollOngoing.
C7_OnePollOpen_Original ==
    [][/\ intervals_disjoint'
       /\ \A who \in Accounts :
              (ret'.op = "create_poll" /\ ret'.who = who /\ last_poll_open(who))
              => ret'.err = "PollOngoing"]_vars

\* C7 (amended): no two polls of one coordinator have overlapping intervals,
\* and a create_poll called while the coordinator's most recent poll is within
\* its interval fails and stores nothing: with CoordinatorMayNotCreatePolls
\* when the coordinator already has MaxCoordinatorPolls polls, with
\* PollOngoing otherwise.
C7_OnePollOpen ==
    [][/\ intervals_disjoint'
       /\ \A who \in Accounts :
              (ret'.op = "create_poll" /\ ret'.who = who /\ last_poll_open(who))
              => /\ ret'.err = IF at_poll_limit(who)
                               THEN "CoordinatorMayNotCreatePolls" ELSE "PollOngoing"
                 /\ Polls' = Polls
                 /\ CoordinatorPollIDs' = CoordinatorPollIDs]_vars

\* C7 witness: a coordinator with two polls was refused a third with
\* PollOngoing.
C7_Witness ==
    \E who \in Accounts :
        /\ Len(poll_ids(CoordinatorPollIDs, who)) >= 2
        /\ ret.op = "create_poll" /\ ret.who = who /\ ret.err = "PollOngoing"
        /\ last_poll_open(who)

\* C8: on a merged poll that holds interactions, verify_outcome yields no result, never a fault, for
\* a malformed outcome (tally results or proofs missing for an option, a
\* proof path with fewer levels than vote_option_tree_depth, a level with
\* fewer than 4 siblings).
C8_MalformedYieldsNoResult ==
    (/\ ret.op = "verify_outcome"
     /\ is_merged(poll)
     /\ poll.state.interactions.count > 0
     /\ ~ret.wellformed)
    => ret.kind = "none"

\* Every expected proof has been accepted: both proof indices equal their
\* expected counts.
all_proofs_accepted ==
    /\ process_index(poll) = poll.state.commitment.expected_process
    /\ tally_index(poll) = poll.state.commitment.expected_tally

\* C9: verify_outcome returns no result whenever the poll is not proven,
\* whatever the outcome.
C9_NoResultBeforeProven ==
    (ret.op = "verify_outcome" /\ ~all_proofs_accepted) => ret.kind = "none"

\* C9 witness: verify_outcome was called on a poll that is not proven with an
\* outcome whose hashes all match the stored tally commitment.
C9_Witness ==
    /\ ret.op = "verify_outcome"
    /\ ~all_proofs_accepted
    /\ ret.matches
    /\ ret.kind = "none"

\* C10: verify_outcome returns an index only if every per-option check and the
\* total-spent check pass, and it returns no result for a well-formed outcome
\* that fails any one of them.
C10_NoPartialSuccess ==
    ret.op = "verify_outcome"
    => /\ ret.kind = "some" => ret.matches
       /\ (ret.wellformed /\ ~ret.matches) => ret.kind = "none"

\* C10 witness: on a merged and proven poll, a well-formed outcome failing
\* exactly one check was given no result.
C10_Witness ==
    /\ ret.op = "verify_outcome"
    /\ is_merged(poll)
    /\ poll.state.interactions.count > 0
    /\ all_proofs_accepted
    /\ ret.wellformed
    /\ ret.mismatches = 1
    /\ ret.kind = "none"

\* The 0-based index of the earliest vote option whose tally result is the
\* largest among the poll's vote options.
earliest_largest(results) ==
    (CHOOSE i \in 1 .. Len(poll.config.vote_options) :
        /\ \A j \in 1 .. Len(poll.config.vote_options) : results[j] <= results[i]
        /\ \A j \in 1 .. i - 1 : results[j] < results[i]) - 1

\* C11: when verify_outcome returns an index, it is the index of the vote
\* option with the largest tally result, the earliest one among equal maxima
\* (index 0 when all tally results are 0).
C11_WinnerIsEarliestLargest ==
    (ret.op = "verify_outcome" /\ ret.kind = "some")
    => ret.val = earliest_largest(ret.results)

\* C11 witness: on a merged and proven poll, verify_outcome returned index 0
\* for two options tied at a non-zero tally result.
C11_Witness ==
    /\ ret.op = "verify_outcome"
    /\ is_merged(poll)
    /\ poll.state.interactions.count > 0
    /\ ret.kind = "some"
    /\ ret.results[1] > 0
    /\ ret.results[1] = ret.results[2]
    /\ ret.val = 0

\* C12: a nullify call leaves is_nullified and is_fulfilled true, whatever
\* the proof progress, and no later poll operation makes either false again.
C12_NullifiedIsPermanent ==
    [][/\ ret'.op = "nullify" => (is_nullified(poll') /\ is_fulfilled(poll'))
       /\ is_nullified(poll) => (is_nullified(poll') /\ is_fulfilled(poll'))]_vars

\* C12 witness: a nullified poll that is not proven went on to be merged and
\* to have a process proof accepted, and is still nullified and fulfilled.
C12_Witness ==
    /\ is_nullified(poll)
    /\ is_fulfilled(poll)
    /\ ~is_proven(poll)
    /\ is_merged(poll)
    /\ ret.op = "prepare_public_inputs"
    /\ ret.kind = "some"

\* ceil(n / d): the least k with k * d >= n.
ceil_div(n, d) == CHOOSE k \in 0 .. n : k * d >= n /\ \A j \in 0 .. k - 1 : j * d < n

process_batch_size_of(p) ==
    Pow(p.state.interactions.arity, p.config.process_subtree_depth)

\* C13: once merge_interactions has run, expected_process equals
\* ceil(interaction count / process_batch_size), with process_batch_size =
\* arity^process_subtree_depth, for every interaction count (0 gives 0).
C13_ExpectedProcessIsCeil ==
    is_some(poll.state.interactions.root)
    => poll.state.commitment.expected_process
       = ceil_div(poll.state.interactions.count, process_batch_size_of(poll))

\* C13 witness: merge_interactions ran on 3 interactions with batches of 2,
\* a full batch and a partial one.
C13_Witness ==
    /\ ret.op = "merge_interactions"
    /\ ret.kind = "ok"
    /\ poll.state.interactions.count = 3
    /\ process_batch_size_of(poll) = 2
    /\ poll.state.commitment.expected_process = 2

tally_batch_size_of(p) ==
    Pow(p.state.registrations.arity, p.config.tally_subtree_depth)

\* C14: once merge_registrations has finalized the registration accumulator,
\* expected_tally equals 1 + floor(registration count / tally_batch_size),
\* with tally_batch_size = arity^tally_subtree_depth, whether or not
\* merge_interactions has been called.
C14_ExpectedTallyAfterMergeRegistrations ==
    is_some(poll.state.registrations.root)
    => poll.state.commitment.expected_tally
       = 1 + (poll.state.registrations.count \div tally_batch_size_of(poll))

\* C15: a merge_registrations or merge_interactions call on an accumulator
\* that is already finalized leaves both roots and the whole commitment ledger
\* (process pair, tally pair, expected_process, expected_tally) unchanged.
C15_RepeatedMergeChangesNothing ==
    [][((ret'.op = "merge_registrations" /\ is_some(poll.state.registrations.root))
        \/ (ret'.op = "merge_interactions" /\ is_some(poll.state.interactions.root)))
       => /\ poll'.state.registrations.root = poll.state.registrations.root
          /\ poll'.state.interactions.root = poll.state.interactions.root
          /\ poll'.state.commitment = poll.state.commitment]_vars

C17_InsertionsOnlyInPeriod ==
    [][/\ poll'.state.registrations.count /= poll.state.registrations.count
          => is_registration_period(poll, block_number)
       /\ poll'.state.interactions.count /= poll.state.interactions.count
          => is_voting_period(poll, block_number)]_vars

\* C18: each successful register_participant / consume_interaction call
\* raises its accumulator's count by one and returns the new count (so the
\* k-th successful insertion returns k), leaves the other accumulator's count
\* unchanged and the root absent; a root appears only in the accumulator's
\* own merge call.
C18_InsertionCounts ==
    [][/\ (ret'.op = "register_participant" /\ ret'.kind = "ok")
          => /\ ret'.val = poll.state.registrations.count + 1
             /\ poll'.state.registrations.count = ret'.val
             /\ poll'.state.interactions.count = poll.state.interactions.count
             /\ is_none(poll'.state.registrations.root)
       /\ (ret'.op = "consume_interaction" /\ ret'.kind = "ok")
          => /\ ret'.val = poll.state.interactions.count + 1
             /\ poll'.state.interactions.count = ret'.val
             /\ poll'.state.registrations.count = poll.state.registrations.count
             /\ is_none(poll'.state.interactions.root)
       /\ ~(ret'.op \in {"register_participant", "consume_interaction"}
            /\ ret'.kind = "ok")
          => /\ poll'.state.registrations.count = poll.state.registrations.count
             /\ poll'.state.interactions.count = poll.state.interactions.count
       /\ (is_none(poll.state.registrations.root)
           /\ is_some(poll'.state.registrations.root))
          => ret'.op = "merge_registrations"
       /\ (is_none(poll.state.interactions.root)
           /\ is_some(poll'.state.interactions.root))
          => ret'.op = "merge_interactions"]_vars

\* C18 witness: the second successful consume_interaction returned 2, with
\* one registration held by the other accumulator and no root yet.
C18_Witness ==
    /\ ret.op = "consume_interaction"
    /\ ret.kind = "ok"
    /\ ret.val = 2
    /\ poll.state.interactions.count = 2
    /\ poll.state.registrations.count = 1
    /\ is_none(poll.state.interactions.root)

\* C19: the n-th successfully created poll has index n (the stored polls are
\* keyed 1 .. n, each holding its own key as index, so no two share an
\* index), a successful create_poll adds exactly that poll and appends its
\* index to the coordinator's list, and a failed create_poll leaves Polls and
\* CoordinatorPollIDs unchanged.
C19_PollIndicesSequential ==
    [][/\ DOMAIN Polls' = 1 .. storage_count(Polls')
       /\ \A i \in DOMAIN Polls' : Polls'[i].index = i
       /\ (ret'.op = "create_poll" /\ ret'.kind = "ok")
          => /\ ret'.val = storage_count(Polls) + 1
             /\ DOMAIN Polls' = DOMAIN Polls \cup {ret'.val}
             /\ \A i \in DOMAIN Polls : Polls'[i] = Polls[i]
             /\ poll_ids(CoordinatorPollIDs', ret'.who)
                = Append(poll_ids(CoordinatorPollIDs, ret'.who), ret'.val)
       /\ (ret'.op = "create_poll" /\ ret'.kind = "err")
          => (Polls' = Polls /\ CoordinatorPollIDs' = CoordinatorPollIDs)]_vars

\* C19 witness: the third poll was created with index 3, the first two polls
\* belonging to different coordinators.
C19_Witness ==
    /\ ret.op = "create_poll"
    /\ ret.kind = "ok"
    /\ ret.val = 3
    /\ storage_count(Polls) = 3
    /\ Polls[1].coordinator /= Polls[2].coordinator

\* The (start, end) pairs of the process-circuit results that successive
\* prepare_public_inputs calls return from poll p on, each returned ledger
\* persisted.
RECURSIVE process_ranges(_)
process_ranges(p) ==
    LET r == prepare_public_inputs(p, TheCoordinator, 1)
    IN  IF r.some /\ r.verify_key = "process"
        THEN <<[start |-> r.inputs[6], end |-> r.inputs[5]]>>
             \o process_ranges([p EXCEPT !.state.commitment = r.commitment])
        ELSE <<>>

\* The ranges [start, end) are pairwise disjoint, cover [0, n) exactly and
\* come last batch first.
ranges_partition(ranges, n) ==
    /\ \A i \in 1 .. Len(ranges) : ranges[i].start < ranges[i].end
    /\ \A i \in 1 .. Len(ranges) - 1 : ranges[i + 1].end = ranges[i].start
    /\ Len(ranges) > 0 => (ranges[1].end = n /\ ranges[Len(ranges)].start = 0)
    /\ \A x \in 0 .. n - 1 :
           Cardinality({i \in 1 .. Len(ranges) :
                           ranges[i].start <= x /\ x < ranges[i].end}) = 1

\* C20: on a merged poll with n > 0 interactions and batch size B, every
\* process-circuit result of prepare_public_inputs has 0 <= start < end <= n,
\* end - start <= B and start a multiple of B, and is the batch its proof
\* index names, counted from the last batch; the expected_process successive
\* calls that start at proof index 0 emit pairwise disjoint ranges that cover
\* [0, n) exactly, last batch first.
C20_ProcessBatchesPartition ==
    (is_merged(poll) /\ poll.state.interactions.count > 0)
    => LET n == poll.state.interactions.count
           B == process_batch_size_of(poll)
           E == poll.state.commitment.expected_process
       IN  /\ (/\ ret.op = "prepare_public_inputs"
               /\ ret.kind = "some"
               /\ ret.circuit = "process")
              => /\ 0 <= ret.start
                 /\ ret.start < ret.end
                 /\ ret.end <= n
                 /\ ret.end - ret.start <= B
                 /\ ret.start % B = 0
                 /\ ret.start = (E - process_index(poll)) * B
           /\ process_index(poll) = 0
              => /\ Len(process_ranges(poll)) = E
                 /\ ranges_partition(process_ranges(poll), n)

\* C20 witness: on a merged poll with 3 interactions in batches of 2, the
\* second process-circuit call returned the full batch [0, 2), after the
\* partial last batch.
C20_Witness ==
    /\ is_merged(poll)
    /\ poll.state.interactions.count = 3
    /\ process_batch_size_of(poll) = 2
    /\ ret.op = "prepare_public_inputs"
    /\ ret.kind = "some"
    /\ ret.circuit = "process"
    /\ process_index(poll) = 2
    /\ ret.start = 0
    /\ ret.end = 2

\* C21: a prepare_public_inputs call that returns a ledger changes exactly
\* one pair of it: the process branch sets process = (process index + 1,
\* new_commitment) and leaves tally and both expected counts as they were;
\* the tally branch sets tally = (tally index + 1, new_commitment) and leaves
\* process and both expected counts as they were.
C21_OnePairAdvances ==
    [][(ret'.op = "prepare_public_inputs" /\ ret'.kind = "some")
       => LET old == poll.state.commitment
              new == poll'.state.commitment
          IN  /\ ret'.circuit \in {"process", "tally"}
              /\ new.expected_process = old.expected_process
              /\ new.expected_tally = old.expected_tally
              /\ ret'.circuit = "process"
                 => /\ new.process[1] = old.process[1] + 1
                    /\ new.process[2] = ret'.val
                    /\ new.tally = old.tally
              /\ ret'.circuit = "tally"
                 => /\ new.tally[1] = old.tally[1] + 1
                    /\ new.tally[2] = ret'.val
                    /\ new.process = old.process]_vars

\* C21 witness: on a merged poll holding interactions, a tally-circuit result
\* followed the accepted process proofs and carries the non-canonical
\* new_commitment unchanged.
C21_Witness ==
    /\ is_merged(poll)
    /\ poll.state.interactions.count > 0
    /\ ret.op = "prepare_public_inputs"
    /\ ret.kind = "some"
    /\ ret.circuit = "tally"
    /\ process_index(poll) = poll.state.commitment.expected_process
    /\ tally_index(poll) = 1
    /\ ret.val = FieldOrder
    /\ poll.state.commitment.tally[2] = FieldOrder

\* C22: in every reachable poll state is_proven implies is_merged, so
\* verify_outcome never returns a winner before both accumulators are
\* finalized.
C22_ProvenImpliesMerged ==
    /\ is_proven(poll) => is_merged(poll)
    /\ (ret.op = "verify_outcome" /\ ret.kind = "some") => is_merged(poll)

\* C23: registration_limit_reached returns true whenever the registration
\* count is >= max_registrations, for every max_registrations including 0.
C23_LimitReachedAtCeiling ==
    (/\ ret.op = "registration_limit_reached"
     /\ poll.state.registrations.count >= poll.config.max_registrations)
    => ret.kind = "true"

====
